---- MODULE Spec2Model ----
(***************************************************************************)
(* Tomato smart-farm API: the Swagger/proxy server (src/api/tomatoApi.js)  *)
(* and the browser client library (src/unnamed/part_000).                  *)
(*                                                                         *)
(* JavaScript objects are modelled as sets of <<field, value>> pairs, so   *)
(* that "the field is absent" and "the field is present" are different     *)
(* values.  URL paths are sequences of segments.                           *)
(***************************************************************************)
EXTENDS Integers, Sequences, FiniteSets, TLC

\* ------------------------------------------------------------------------
\* Bounds of the model
\* ------------------------------------------------------------------------
MaxReq == 2            \* inbound proxy requests that may be in flight together
MaxCalls == 2          \* calls the page makes to the client library
MaxPayloadLen == 3     \* base64 characters of a file given to fileToBase64

ReqIds == 1..MaxReq

\* ------------------------------------------------------------------------
\* JavaScript values
\* ------------------------------------------------------------------------
Undefined == "<undefined>"
Null == "<null>"
EmptyObj == {}

\* obj[k], undefined when the property does not exist
Get(obj, k) == IF \E p \in obj : p[1] = k
               THEN (CHOOSE p \in obj : p[1] = k)[2]
               ELSE Undefined

Fields(obj) == {p[1] : p \in obj}

\* ToBoolean on the values the model uses
Truthy(v) == v \notin {Undefined, Null, ""}

\* JSON.stringify of an object literal: properties whose value is undefined
\* are left out of the serialised text
JSONstringify(obj) == {p \in obj : p[2] # Undefined}

\* a || b
OrElse(a, b) == IF Truthy(a) THEN a ELSE b

\* ------------------------------------------------------------------------
\* Server: startup configuration
\* ------------------------------------------------------------------------
DefaultN8nUrl == "https://n8n.seedfarm.co.kr/webhook"
FileSizeLimit == 10 * 1024 * 1024
SwaggerYaml == {<<"openapi", "3.0.0">>}

StartupConfig == [N8N_BASE_URL |-> DefaultN8nUrl,
                  fileSize |-> FileSizeLimit,
                  swaggerDocument |-> SwaggerYaml]

\* ------------------------------------------------------------------------
\* Server: inbound requests
\* ------------------------------------------------------------------------
NoFile == [name |-> "", size |-> 0]
SmallFile == [name |-> "leaf.jpg", size |-> 1]
BigFile == [name |-> "big.jpg", size |-> FileSizeLimit + 1]

CapturePath == <<"proxy", "capture-analyze">>
DiagnosisPath == <<"proxy", "disease-diagnosis">>
ChatPath == <<"proxy", "chat-message">>
FooBarPath == <<"proxy", "foo", "bar">>
DoubleProxyPath == <<"proxy", "a", "proxy">>
UpperPath == <<"PROXY", "foo">>

Request(m, p, b, f) == [method |-> m, path |-> p, body |-> b, file |-> f]

NoRequest == Request("", <<>>, EmptyObj, NoFile)

\* express.json() of Express 4 leaves req.body = {} when the request has
\* no JSON body, so a body is always an object.
DiagnosisBodies ==
    { EmptyObj,
      {<<"image", "">>},
      {<<"image", "aGVsbG8=">>},
      {<<"image", "aGVsbG8=">>, <<"mimeType", "image/png">>} }

ChatBodies ==
    { EmptyObj,
      {<<"message", "">>},
      {<<"message", "hi">>},
      {<<"message", "hi">>, <<"session_id", "s1">>} }

Inbound ==
    {Request("GET", <<>>, EmptyObj, NoFile),
     Request("GET", <<"api-docs.json">>, EmptyObj, NoFile)}
    \cup {Request("POST", CapturePath, EmptyObj, f) :
             f \in {NoFile, SmallFile, BigFile}}
    \cup {Request("POST", DiagnosisPath, b, NoFile) : b \in DiagnosisBodies}
    \cup {Request("POST", ChatPath, b, NoFile) : b \in ChatBodies}
    \cup {Request("PUT", FooBarPath, {<<"a", "1">>}, NoFile),
          Request("HEAD", FooBarPath, EmptyObj, NoFile),
          Request("POST", DoubleProxyPath, {<<"a", "1">>}, NoFile),
          Request("DELETE", UpperPath, EmptyObj, NoFile),
          Request("GET", ChatPath, EmptyObj, NoFile)}

\* ------------------------------------------------------------------------
\* Server: the remote service's possible answers
\* ------------------------------------------------------------------------
RemoteStatuses == {200, 404}
RemoteData == {<<"success", "true">>, <<"data", "d1">>}

ErrConnection == "fetch failed"
ErrTimeout == "Headers Timeout Error"
ErrNotJson == "Unexpected token < in JSON at position 0"
ErrHeadBody == "Request with GET/HEAD method cannot have body."
FetchErrors == {ErrConnection, ErrTimeout}

NoAnswer == [status |-> 0, outcome |-> "none", data |-> EmptyObj, message |-> ""]

VARIABLES
    config,      \* PORT-independent startup constants of the server
    pc,          \* pc[id]: where the handling of request id stands
    request,     \* request[id]: the inbound request
    handler,     \* handler[id]: sequence of route handlers invoked for it
    calls,       \* calls[id]: outbound fetch calls issued on its behalf
    remote,      \* remote[id]: what the remote service answered so far
    responses,   \* responses[id]: responses sent to the caller
    BASE_URL,    \* client: the module constant BASE_URL
    invocations, \* client: calls made to the library, in order
    fetched,     \* client: requests handed to fetch(), in order
    console,     \* client: console.warn output
    file,        \* fileToBase64: the file being converted
    reader,      \* fileToBase64: the FileReader
    promise      \* fileToBase64: the promise it returned

serverVars == <<config, pc, request, handler, calls, remote, responses>>

clientVars == <<BASE_URL, invocations, fetched, console>>

readerVars == <<file, reader, promise>>

vars == <<config, pc, request, handler, calls, remote, responses,
          BASE_URL, invocations, fetched, console, file, reader, promise>>

\* ------------------------------------------------------------------------
\* Server: Express routing
\* ------------------------------------------------------------------------
\* Express 4 matches route paths case-insensitively
LowerSeg(s) == IF s = "PROXY" THEN "proxy" ELSE s
Lower(p) == [i \in DOMAIN p |-> LowerSeg(p[i])]

\* the routes with the catch-all registered ahead of the typed ones
RouteGenericFirst(m, p) ==
    LET lp == Lower(p) IN
    IF m = "GET" /\ lp = <<>> THEN "health"
    ELSE IF m = "GET" /\ lp = <<"api-docs.json">> THEN "api-docs.json"
    ELSE IF Len(lp) >= 2 /\ lp[1] = "proxy" THEN "generic"
    ELSE "none"

\* The first registered route that matches; the typed handlers never call
\* next(), so a request they match does not go on to the generic route.
Route(m, p) ==
    LET lp == Lower(p) IN
    IF m = "GET" /\ lp = <<>> THEN "health"
    ELSE IF m = "GET" /\ lp = <<"api-docs.json">> THEN "api-docs.json"
    ELSE IF m = "POST" /\ lp = CapturePath THEN "capture-analyze"
    ELSE IF m = "POST" /\ lp = DiagnosisPath THEN "disease-diagnosis"
    ELSE IF m = "POST" /\ lp = ChatPath THEN "chat-message"
    ELSE IF Len(lp) >= 2 /\ lp[1] = "proxy" THEN "generic"
    ELSE "none"

\* req.path.replace('/proxy', ''): String.prototype.replace with a string
\* pattern removes the first occurrence only, and is case-sensitive
ReplaceProxy(p) ==
    IF \E i \in DOMAIN p : p[i] = "proxy"
    THEN LET i == CHOOSE k \in DOMAIN p :
                      /\ p[k] = "proxy"
                      /\ \A j \in 1..(k - 1) : p[j] # "proxy"
         IN SubSeq(p, 1, i - 1) \o SubSeq(p, i + 1, Len(p))
    ELSE p

\* the requests Express dispatches to route rt
RoutedTo(rt) == {r \in Inbound : Route(r.method, r.path) = rt}

\* ------------------------------------------------------------------------
\* Server: what a handler does up to its first await
\* ------------------------------------------------------------------------
Url(base, path) == [base |-> base, path |-> path]

Call(url, m, hasBody, body) ==
    [url |-> url, method |-> m, hasBody |-> hasBody, body |-> body]

NoCall == Call(Url("", <<>>), "", FALSE, EmptyObj)

Response(status, body) == [status |-> status, body |-> body]

Respond(status, body) ==
    [kind |-> "respond", response |-> Response(status, body), call |-> NoCall]

Fetch(url, m, hasBody, body) ==
    [kind |-> "fetch", response |-> Response(0, EmptyObj),
     call |-> Call(url, m, hasBody, body)]

HintText == "n8n server unreachable, check the server status"
NeedFileText == "image file required in FormData field image"
NeedImageText == "Base64 image required in JSON body field image"
NeedMessageText == "message required"

\* proxyFormData(req, res, targetPath), the try block up to the await
ProxyFormData(cfg, r, targetPath) ==
    IF r.file = NoFile
    THEN Respond(400, {<<"success", "false">>, <<"error", NeedFileText>>})
    ELSE Fetch(Url(cfg.N8N_BASE_URL, targetPath), "POST", TRUE,
               {<<"image", r.file.name>>})

\* proxyFormData, the catch block
ProxyFormDataCatch(msg) ==
    Response(500, {<<"success", "false">>, <<"error", msg>>,
                   <<"hint", HintText>>})

\* app.post('/proxy/disease-diagnosis'), the try block up to the await
DiseaseDiagnosis(cfg, r) ==
    LET image == Get(r.body, "image")
        mimeType == Get(r.body, "mimeType")
    IN IF ~Truthy(image)
       THEN Respond(400, {<<"success", "false">>, <<"error", NeedImageText>>})
       ELSE Fetch(Url(cfg.N8N_BASE_URL, <<"disease-diagnosis">>), "POST", TRUE,
                  JSONstringify({<<"image", image>>,
                                 <<"mimeType", OrElse(mimeType, "image/jpeg")>>}))

DiseaseDiagnosisCatch(msg) ==
    Response(500, {<<"success", "false">>, <<"error", msg>>,
                   <<"hint", HintText>>})

\* the chat handler without its presence check
ChatMessageNoCheck(cfg, r) ==
    Fetch(Url(cfg.N8N_BASE_URL, <<"chat-message">>), "POST", TRUE,
          JSONstringify({<<"message", Get(r.body, "message")>>}))

\* app.post('/proxy/chat-message'), the try block up to the await
ChatMessage(cfg, r) ==
    LET message == Get(r.body, "message")
    IN IF ~Truthy(message)
       THEN Respond(400, {<<"success", "false">>, <<"error", NeedMessageText>>})
       ELSE Fetch(Url(cfg.N8N_BASE_URL, <<"chat-message">>), "POST", TRUE,
                  JSONstringify({<<"message", message>>}))

ChatMessageCatch(msg) ==
    Response(500, {<<"success", "false">>, <<"error", msg>>})

\* app.all('/proxy/*'), the try block up to the await.  req.body is always
\* an object under Express 4, and every object is truthy.
GenericProxy(cfg, r) ==
    LET targetPath == ReplaceProxy(r.path)
        url == Url(cfg.N8N_BASE_URL, targetPath)
    IN IF r.method # "GET"
       THEN Fetch(url, r.method, TRUE, JSONstringify(r.body))
       ELSE Fetch(url, r.method, FALSE, EmptyObj)

GenericProxyCatch(msg) ==
    Response(500, {<<"success", "false">>, <<"error", msg>>})

\* the catch block of the handler that serves the request
Catch(h, msg) ==
    CASE h = "capture-analyze" -> ProxyFormDataCatch(msg)
      [] h = "disease-diagnosis" -> DiseaseDiagnosisCatch(msg)
      [] h = "chat-message" -> ChatMessageCatch(msg)
      [] OTHER -> GenericProxyCatch(msg)

\* a forward that is issued twice
IssueFetchTwice(cs, c) == Append(Append(cs, c), c)

\* `await fetch(url, options)`: one call reaches the network layer
IssueFetch(cs, c) == Append(cs, c)

\* fetch() rejects with a TypeError, before anything is sent, when a GET
\* or HEAD request is given a body (Fetch standard, Request constructor)
FetchRejectsInit(c) == c.method \in {"GET", "HEAD"} /\ c.hasBody

\* res.status(response.status).json(data)
Relay(status, data) == Response(status, data)

\* `response` kept in a variable shared by all requests: the status relayed
\* is the one another request's fetch resolved with, when there is one
AnswerStatusShared(id) ==
    IF \E j \in ReqIds : j # id /\ remote[j].status # 0
    THEN remote[CHOOSE j \in ReqIds : j # id /\ remote[j].status # 0].status
    ELSE remote[id].status

\* `response` is a local of the handler invocation: the status relayed for
\* request id is the one its own fetch resolved with
AnswerStatus(id) == remote[id].status

\* ------------------------------------------------------------------------
\* Server: state machine
\* ------------------------------------------------------------------------
ServerInit ==
    /\ config = StartupConfig
    /\ pc = [id \in ReqIds |-> "idle"]
    /\ request = [id \in ReqIds |-> NoRequest]
    /\ handler = [id \in ReqIds |-> <<>>]
    /\ calls = [id \in ReqIds |-> <<>>]
    /\ remote = [id \in ReqIds |-> NoAnswer]
    /\ responses = [id \in ReqIds |-> <<>>]

\* request r is dispatched to handler h, which runs to its first await
Dispatch(id, r, h, out) ==
    /\ pc[id] = "idle"
    /\ request' = [request EXCEPT ![id] = r]
    /\ handler' = [handler EXCEPT ![id] = Append(@, h)]
    /\ IF out.kind = "respond"
       THEN /\ responses' = [responses EXCEPT ![id] = Append(@, out.response)]
            /\ pc' = [pc EXCEPT ![id] = "done"]
            /\ UNCHANGED calls
       ELSE IF FetchRejectsInit(out.call)
       THEN /\ responses' = [responses EXCEPT ![id] = Append(@, Catch(h, ErrHeadBody))]
            /\ pc' = [pc EXCEPT ![id] = "done"]
            /\ UNCHANGED calls
       ELSE /\ calls' = [calls EXCEPT ![id] = IssueFetch(@, out.call)]
            /\ pc' = [pc EXCEPT ![id] = "fetching"]
            /\ UNCHANGED responses
    /\ UNCHANGED <<config, remote>>
    /\ UNCHANGED <<clientVars, readerVars>>

\* app.get('/')
Health(id) ==
    /\ pc[id] = "idle"
    /\ \E r \in RoutedTo("health") :
        /\ Dispatch(id, r, "health",
                    Respond(200, {<<"status", "ok">>, <<"version", "2.0.0">>,
                                  <<"api_server", config.N8N_BASE_URL>>}))

\* app.get('/api-docs.json')
ApiDocsJson(id) ==
    /\ pc[id] = "idle"
    /\ \E r \in RoutedTo("api-docs.json") :
        /\ Dispatch(id, r, "api-docs.json", Respond(200, config.swaggerDocument))

\* upload.single('image') refuses the upload: multer passes a MulterError
\* (LIMIT_FILE_SIZE) to next(), the route handler is skipped and Express's
\* default error handler answers.
DefaultErrorPage == {<<"html", "MulterError: File too large">>}

\* multer({ limits: { fileSize } }): the upload may pass / may be refused
MulterAcceptsNoLimit(cfg, f) == TRUE

MulterAccepts(cfg, f) == f.size <= cfg.fileSize

MulterRejects(cfg, f) == f # NoFile /\ f.size > cfg.fileSize

UploadRejected(id) ==
    /\ pc[id] = "idle"
    /\ \E r \in RoutedTo("capture-analyze") :
        /\ MulterRejects(config, r.file)
        /\ request' = [request EXCEPT ![id] = r]
        /\ responses' = [responses EXCEPT ![id] = Append(@, Response(500, DefaultErrorPage))]
        /\ pc' = [pc EXCEPT ![id] = "done"]
        /\ UNCHANGED <<config, handler, calls, remote>>
        /\ UNCHANGED <<clientVars, readerVars>>

\* app.post('/proxy/capture-analyze', upload.single('image'), ...)
CaptureAnalyze(id) ==
    /\ pc[id] = "idle"
    /\ \E r \in RoutedTo("capture-analyze") :
        /\ MulterAccepts(config, r.file)
        /\ Dispatch(id, r, "capture-analyze",
                    ProxyFormData(config, r, <<"capture-analyze">>))

PostDiseaseDiagnosis(id) ==
    /\ pc[id] = "idle"
    /\ \E r \in RoutedTo("disease-diagnosis") :
        /\ Dispatch(id, r, "disease-diagnosis", DiseaseDiagnosis(config, r))

PostChatMessage(id) ==
    /\ pc[id] = "idle"
    /\ \E r \in RoutedTo("chat-message") :
        /\ Dispatch(id, r, "chat-message", ChatMessage(config, r))

AllProxy(id) ==
    /\ pc[id] = "idle"
    /\ \E r \in RoutedTo("generic") :
        /\ Dispatch(id, r, "generic", GenericProxy(config, r))

CurrentHandler(id) == handler[id][Len(handler[id])]

\* `await fetch(...)` resolves: the remote answered with a status line.
\* The same four lines end the try block of all four proxy handlers.
FetchResolves(id) ==
    \E s \in RemoteStatuses :
        /\ pc[id] = "fetching"
        /\ remote' = [remote EXCEPT ![id] = [@ EXCEPT !.status = s, !.outcome = "headers"]]
        /\ pc' = [pc EXCEPT ![id] = "parsing"]
        /\ UNCHANGED <<config, request, handler, calls, responses>>
        /\ UNCHANGED <<clientVars, readerVars>>

\* `await fetch(...)` rejects (connection failure, remote timeout): catch
FetchRejects(id) ==
    \E e \in FetchErrors :
        /\ pc[id] = "fetching"
        /\ remote' = [remote EXCEPT ![id] = [@ EXCEPT !.outcome = "error", !.message = e]]
        /\ responses' = [responses EXCEPT ![id] = Append(@, Catch(CurrentHandler(id), e))]
        /\ pc' = [pc EXCEPT ![id] = "done"]
        /\ UNCHANGED <<config, request, handler, calls>>
        /\ UNCHANGED <<clientVars, readerVars>>

\* `await response.json()` resolves: relay status and body
JsonResolves(id) ==
    /\ pc[id] = "parsing"
    /\ remote' = [remote EXCEPT ![id] = [@ EXCEPT !.outcome = "json", !.data = RemoteData]]
    /\ responses' = [responses EXCEPT ![id] = Append(@, Relay(AnswerStatus(id), RemoteData))]
    /\ pc' = [pc EXCEPT ![id] = "done"]
    /\ UNCHANGED <<config, request, handler, calls>>
    /\ UNCHANGED <<clientVars, readerVars>>

\* `await response.json()` rejects (the remote's body is not JSON): catch
JsonRejects(id) ==
    /\ pc[id] = "parsing"
    /\ remote' = [remote EXCEPT ![id] = [@ EXCEPT !.outcome = "notjson", !.message = ErrNotJson]]
    /\ responses' = [responses EXCEPT ![id] = Append(@, Catch(CurrentHandler(id), ErrNotJson))]
    /\ pc' = [pc EXCEPT ![id] = "done"]
    /\ UNCHANGED <<config, request, handler, calls>>
    /\ UNCHANGED <<clientVars, readerVars>>

\* ------------------------------------------------------------------------
\* Client library: values
\* ------------------------------------------------------------------------
LoadTimeBase == "https://n8n.seedfarm.co.kr/webhook"

\* a parameter default applies when the argument is undefined
Default(v, d) == IF v = Undefined THEN d ELSE v

\* `${v}` inside a template literal
Tpl(v) == IF v = Null THEN "null" ELSE IF v = Undefined THEN "undefined" ELSE v

\* encodeURIComponent on the thread ids the model uses: unreserved
\* characters stay, the others are percent-encoded
encodeURIComponent(t) ==
    CASE t = "a b&c" -> "a%20b%26c"
      [] t = "t/1" -> "t%2F1"
      [] OTHER -> t

ThreadIds == {"my_session_001", "a b&c"}

ClientRequest(base, path, query, m, contentType, body) ==
    [url |-> [base |-> base, path |-> path, query |-> query],
     method |-> m, contentType |-> contentType, body |-> body]

\* fetch(url) and fetch(url, { method }) without a body
Plain(base, path, query, m) == ClientRequest(base, path, query, m, "", EmptyObj)

\* fetch(url, { method: 'POST', headers: JSON, body: JSON.stringify(obj) })
PostJson(base, path, obj) ==
    ClientRequest(base, path, <<>>, "POST", "application/json", JSONstringify(obj))

\* fetch(url, { method: 'POST', body: formData })
PostForm(base, path, formData) ==
    ClientRequest(base, path, <<>>, "POST", "multipart/form-data", formData)

\* ------------------------------------------------------------------------
\* Client library: the request each function hands to fetch()
\* ------------------------------------------------------------------------
getRealtimeData(base) == Plain(base, <<"data-realtime">>, <<>>, "GET")

getHistoryDataDay(base, hours) ==
    Plain(base, <<"data-history">>, <<<<"hours", Tpl(Default(hours, "24"))>>>>, "GET")

getHistoryData(base, hours) ==
    Plain(base, <<"data-history">>, <<<<"hours", Tpl(Default(hours, "1"))>>>>, "GET")

getDailySummary(base) == Plain(base, <<"data-summary">>, <<>>, "GET")

captureNow(base) == Plain(base, <<"camera-capture">>, <<>>, "POST")

captureTest(base) == Plain(base, <<"capture-test">>, <<>>, "POST")

startMonitoring(base) == Plain(base, <<"camera-start">>, <<>>, "POST")

stopMonitoring(base) == Plain(base, <<"camera-stop">>, <<>>, "POST")

getCameraStatus(base) == Plain(base, <<"camera-status">>, <<>>, "GET")

setCaptureInterval(base, interval) ==
    PostJson(base, <<"camera-interval">>, {<<"interval", interval>>})

setWhiteBalance(base, mode) ==
    PostJson(base, <<"camera-white-balance">>, {<<"mode", mode>>})

\* the body always built with both fields
sendChatMessageBothFields(base, message, sessionId) ==
    PostJson(base, <<"chat-message">>,
             {<<"message", message>>, <<"session_id", Default(sessionId, Null)>>})

sendChatMessage(base, message, sessionId) ==
    LET sid == Default(sessionId, Null)
        body == IF Truthy(sid)
                THEN {<<"message", message>>, <<"session_id", sid>>}
                ELSE {<<"message", message>>}
    IN PostJson(base, <<"chat-message">>, body)

analyzeImage(base, imageFile) ==
    PostForm(base, <<"capture-analyze">>, {<<"image", imageFile>>})

diagnoseDisease(base, base64Image, mimeType) ==
    PostJson(base, <<"disease-diagnosis">>,
             {<<"image", base64Image>>,
              <<"mimeType", Default(mimeType, "image/jpeg")>>})

getChatHistoryList(base, page, limit) ==
    Plain(base, <<"chat-message", "history">>,
          <<<<"page", Tpl(Default(page, "1"))>>,
            <<"limit", Tpl(Default(limit, "10"))>>>>, "GET")

getChatHistoryDetail(base, threadId) ==
    Plain(base, <<"chat-message", "history", "detail">>,
          <<<<"threadId", encodeURIComponent(threadId)>>>>, "GET")

deleteChatHistory(base, threadId) ==
    Plain(base, <<"chat-message", "history", "delete">>,
          <<<<"threadId", encodeURIComponent(threadId)>>>>, "DELETE")

getMarketPrice(base) == Plain(base, <<"market-price">>, <<>>, "GET")

getPriceCompare(base) == Plain(base, <<"price-compare">>, <<>>, "GET")

getPriceHistory(base, start, end) ==
    Plain(base, <<"price-history">>,
          <<<<"start", Tpl(start)>>, <<"end", Tpl(end)>>>>, "GET")

predictYield(base, params) == PostJson(base, <<"yield-prediction">>, params)

getDiaryList(base, days) ==
    Plain(base, <<"app", "diary">>, <<<<"days", Tpl(Default(days, "7"))>>>>, "GET")

saveDiary(base, entry) == PostJson(base, <<"app", "diary">>, entry)

getHomeData(base) == Plain(base, <<"app", "home">>, <<>>, "GET")

appChat(base, message, apiKey) ==
    PostJson(base, <<"app", "chat">>,
             {<<"message", message>>,
              <<"api_key", Default(apiKey, "tomato-farm-2024")>>})

appAnalyze(base, f) == PostForm(base, <<"app", "analyze">>, {<<"file", f>>})

\* setBaseUrl(url) given write access to the base address
setBaseUrlAssign(base, url) == url

\* setBaseUrl(url): the value BASE_URL has after the call
setBaseUrl(base, url) == base

SetBaseUrlWarning == "setBaseUrl is not implemented, edit BASE_URL directly"

\* ------------------------------------------------------------------------
\* Client library: state machine
\* ------------------------------------------------------------------------
ClientInit ==
    /\ BASE_URL = LoadTimeBase
    /\ invocations = <<>>
    /\ fetched = <<>>
    /\ console = <<>>

\* an async library function is called: it runs to `await fetch(...)`
Invoke(fn, args, req) ==
    /\ Len(invocations) < MaxCalls
    /\ invocations' = Append(invocations, [fn |-> fn, args |-> args, state |-> "pending"])
    /\ fetched' = Append(fetched, [inv |-> Len(invocations) + 1, req |-> req])
    /\ UNCHANGED <<BASE_URL, console>>
    /\ UNCHANGED <<serverVars, readerVars>>

CallGetRealtimeData == Invoke("getRealtimeData", <<>>, getRealtimeData(BASE_URL))

CallGetHistoryData ==
    \E hours \in {Undefined, "6"} :
        Invoke("getHistoryData", <<hours>>, getHistoryData(BASE_URL, hours))

CallGetDailySummary == Invoke("getDailySummary", <<>>, getDailySummary(BASE_URL))

CallCaptureNow == Invoke("captureNow", <<>>, captureNow(BASE_URL))

CallCaptureTest == Invoke("captureTest", <<>>, captureTest(BASE_URL))

CallStartMonitoring == Invoke("startMonitoring", <<>>, startMonitoring(BASE_URL))

CallStopMonitoring == Invoke("stopMonitoring", <<>>, stopMonitoring(BASE_URL))

CallGetCameraStatus == Invoke("getCameraStatus", <<>>, getCameraStatus(BASE_URL))

CallSetCaptureInterval ==
    Invoke("setCaptureInterval", <<"300">>, setCaptureInterval(BASE_URL, "300"))

CallSetWhiteBalance ==
    Invoke("setWhiteBalance", <<"auto">>, setWhiteBalance(BASE_URL, "auto"))

CallSendChatMessage ==
    \E message \in {"hi", "hello"}, sessionId \in {Undefined, Null, "", "s1"} :
        Invoke("sendChatMessage", <<message, sessionId>>,
               sendChatMessage(BASE_URL, message, sessionId))

CallAnalyzeImage ==
    Invoke("analyzeImage", <<"leaf.jpg">>, analyzeImage(BASE_URL, "leaf.jpg"))

CallDiagnoseDisease ==
    \E mimeType \in {Undefined, "image/png"} :
        Invoke("diagnoseDisease", <<"aGVsbG8=", mimeType>>,
               diagnoseDisease(BASE_URL, "aGVsbG8=", mimeType))

CallGetChatHistoryList ==
    \E page \in {Undefined, "2"}, limit \in {Undefined, "5"} :
        Invoke("getChatHistoryList", <<page, limit>>,
               getChatHistoryList(BASE_URL, page, limit))

CallGetChatHistoryDetail ==
    \E threadId \in ThreadIds :
        Invoke("getChatHistoryDetail", <<threadId>>,
               getChatHistoryDetail(BASE_URL, threadId))

CallDeleteChatHistory ==
    \E threadId \in ThreadIds :
        Invoke("deleteChatHistory", <<threadId>>,
               deleteChatHistory(BASE_URL, threadId))

CallGetMarketPrice == Invoke("getMarketPrice", <<>>, getMarketPrice(BASE_URL))

CallGetPriceCompare == Invoke("getPriceCompare", <<>>, getPriceCompare(BASE_URL))

CallGetPriceHistory ==
    Invoke("getPriceHistory", <<"2025-12-01", "2025-12-12">>,
           getPriceHistory(BASE_URL, "2025-12-01", "2025-12-12"))

CallPredictYield ==
    \E params \in {{<<"temperature", "25.5">>, <<"humidity", "70">>}} :
        Invoke("predictYield", <<"params">>, predictYield(BASE_URL, params))

CallGetDiaryList ==
    \E days \in {Undefined, "3"} :
        Invoke("getDiaryList", <<days>>, getDiaryList(BASE_URL, days))

CallSaveDiary ==
    \E entry \in {{<<"date", "2025-12-12">>, <<"notes", Undefined>>}} :
        Invoke("saveDiary", <<"entry">>, saveDiary(BASE_URL, entry))

CallGetHomeData == Invoke("getHomeData", <<>>, getHomeData(BASE_URL))

CallAppChat ==
    \E apiKey \in {Undefined, "key-1"} :
        Invoke("appChat", <<"hi", apiKey>>, appChat(BASE_URL, "hi", apiKey))

CallAppAnalyze ==
    Invoke("appAnalyze", <<"leaf.jpg">>, appAnalyze(BASE_URL, "leaf.jpg"))

\* setBaseUrl(url): synchronous, warns and returns
CallSetBaseUrl ==
    \E url \in {"http://192.168.49.200:5679/webhook", LoadTimeBase} :
        /\ Len(invocations) < MaxCalls
        /\ invocations' = Append(invocations,
                                 [fn |-> "setBaseUrl", args |-> <<url>>, state |-> "returned"])
        /\ console' = Append(console, SetBaseUrlWarning)
        /\ BASE_URL' = setBaseUrl(BASE_URL, url)
        /\ UNCHANGED fetched
        /\ UNCHANGED <<serverVars, readerVars>>

\* `return response.json()`: the call's promise resolves with the decoded
\* body, or rejects when fetch or the decoding fails; no request is issued
ClientSettles ==
    \E k \in DOMAIN invocations, outcome \in {"resolved", "rejected"} :
        /\ invocations[k].state = "pending"
        /\ invocations' = [invocations EXCEPT ![k].state = outcome]
        /\ UNCHANGED <<BASE_URL, fetched, console>>
        /\ UNCHANGED <<serverVars, readerVars>>

\* ------------------------------------------------------------------------
\* fileToBase64: FileReader and promise
\* ------------------------------------------------------------------------
MimeTypes == {"image/jpeg", "image/png", ""}
Base64Chars == {"Q", "="}

RECURSIVE SeqsUpTo(_, _)
SeqsUpTo(S, n) ==
    IF n = 0 THEN {<<>>}
    ELSE LET shorter == SeqsUpTo(S, n - 1)
         IN shorter \cup {Append(q, c) : q \in shorter, c \in S}

Files == {[type |-> t, payload |-> b] : t \in MimeTypes, b \in SeqsUpTo(Base64Chars, MaxPayloadLen)}

\* FileReader.readAsDataURL: the result once the whole file is read, as
\* the sequence of its parts; a file without a type is given the generic
\* media type
DataURL(f) ==
    <<"data:", IF f.type = "" THEN "application/octet-stream" ELSE f.type,
      ";base64", ",">> \o f.payload

\* String.prototype.split(sep): the pieces between the separators
RECURSIVE Split(_, _)
Split(str, sep) ==
    IF \E i \in DOMAIN str : str[i] = sep
    THEN LET i == CHOOSE k \in DOMAIN str :
                      /\ str[k] = sep
                      /\ \A j \in 1..(k - 1) : str[j] # sep
         IN <<SubSeq(str, 1, i - 1)>> \o Split(SubSeq(str, i + 1, Len(str)), sep)
    ELSE <<str>>

\* arr[k], JavaScript's zero-based indexing
At(arr, k) == IF k + 1 <= Len(arr) THEN arr[k + 1] ELSE <<Undefined>>

\* the result handed on without taking the prefix off
Base64OfWhole(result) == result

\* reader.result.split(',')[1]
Base64Of(result) == At(Split(result, ","), 1)

\* resolve(v) / reject(v): only a pending promise changes state
Settle(p, state, value) ==
    IF p.state = "pending"
    THEN [p EXCEPT !.state = state, !.value = value]
    ELSE p

ErrorEvent == <<"error: NotReadableError">>

NoPromise == [state |-> "none", value |-> <<>>, resolveCalls |-> 0, rejectCalls |-> 0]
NewReader == [readyState |-> "EMPTY", result |-> <<>>, loaded |-> 0, error |-> FALSE]

ReaderIdle ==
    /\ file = [type |-> "", payload |-> <<>>]
    /\ reader = NewReader
    /\ promise = NoPromise

\* fileToBase64(file): the executor of the new promise starts the read
FileToBase64 ==
    /\ promise.state = "none"
    /\ promise' = [promise EXCEPT !.state = "pending"]
    /\ reader' = [reader EXCEPT !.readyState = "LOADING"]
    /\ UNCHANGED file
    /\ UNCHANGED <<serverVars, clientVars>>

\* the browser reads on; no handler is registered for progress events
ReadProgress ==
    /\ reader.readyState = "LOADING"
    /\ reader.loaded < Len(file.payload)
    /\ reader' = [reader EXCEPT !.loaded = @ + 1]
    /\ UNCHANGED <<file, promise>>
    /\ UNCHANGED <<serverVars, clientVars>>

\* the read completes: reader.onload runs
ReaderOnLoad ==
    /\ reader.readyState = "LOADING"
    /\ reader.loaded = Len(file.payload)
    /\ reader' = [reader EXCEPT !.readyState = "DONE", !.result = DataURL(file)]
    /\ promise' = [Settle(promise, "fulfilled", Base64Of(DataURL(file)))
                      EXCEPT !.resolveCalls = @ + 1]
    /\ UNCHANGED file
    /\ UNCHANGED <<serverVars, clientVars>>

\* the read fails, at any point of the file: reader.onerror runs
ReaderOnError ==
    /\ reader.readyState = "LOADING"
    /\ reader' = [reader EXCEPT !.readyState = "DONE", !.error = TRUE]
    /\ promise' = [Settle(promise, "rejected", ErrorEvent)
                      EXCEPT !.rejectCalls = @ + 1]
    /\ UNCHANGED file
    /\ UNCHANGED <<serverVars, clientVars>>

\* ------------------------------------------------------------------------
\* Specifications
\* ------------------------------------------------------------------------
Init == ServerInit /\ ClientInit /\ ReaderIdle

Next ==
    \E id \in ReqIds :
        \/ Health(id)
        \/ ApiDocsJson(id)
        \/ UploadRejected(id)
        \/ CaptureAnalyze(id)
        \/ PostDiseaseDiagnosis(id)
        \/ PostChatMessage(id)
        \/ AllProxy(id)
        \/ FetchResolves(id)
        \/ FetchRejects(id)
        \/ JsonResolves(id)
        \/ JsonRejects(id)

Spec == Init /\ [][Next]_vars

ClientNext ==
    \/ CallGetRealtimeData
    \/ CallGetHistoryData
    \/ CallGetDailySummary
    \/ CallCaptureNow
    \/ CallCaptureTest
    \/ CallStartMonitoring
    \/ CallStopMonitoring
    \/ CallGetCameraStatus
    \/ CallSetCaptureInterval
    \/ CallSetWhiteBalance
    \/ CallSendChatMessage
    \/ CallAnalyzeImage
    \/ CallDiagnoseDisease
    \/ CallGetChatHistoryList
    \/ CallGetChatHistoryDetail
    \/ CallDeleteChatHistory
    \/ CallGetMarketPrice
    \/ CallGetPriceCompare
    \/ CallGetPriceHistory
    \/ CallPredictYield
    \/ CallGetDiaryList
    \/ CallSaveDiary
    \/ CallGetHomeData
    \/ CallAppChat
    \/ CallAppAnalyze
    \/ CallSetBaseUrl
    \/ ClientSettles

ClientSpec == Init /\ [][ClientNext]_vars

Base64Init ==
    /\ ServerInit
    /\ ClientInit
    /\ file \in Files
    /\ reader = NewReader
    /\ promise = NoPromise

Base64Next ==
    \/ FileToBase64
    \/ ReadProgress
    \/ ReaderOnLoad
    \/ ReaderOnError

Base64Spec == Base64Init /\ [][Base64Next]_vars

\* ------------------------------------------------------------------------
\* Properties of the proxy server
\* ------------------------------------------------------------------------
TypedRoutes == {"capture-analyze", "disease-diagnosis", "chat-message"}

RouteOf(id) == Route(request[id].method, request[id].path)

Arrived(id) == pc[id] # "idle"

\* the request does not carry the input its typed route requires (the
\* field is missing, or is the empty string)
LacksInput(r) ==
    LET rt == Route(r.method, r.path) IN
    \/ rt = "capture-analyze" /\ r.file = NoFile
    \/ rt = "disease-diagnosis" /\ Get(r.body, "image") \in {Undefined, ""}
    \/ rt = "chat-message" /\ Get(r.body, "message") \in {Undefined, ""}

\* C1: a request to a typed proxy route that lacks the route's required
\* input is answered with status 400 and no outbound call is issued for it.
C1_MissingInputRejected ==
    \A id \in ReqIds :
        (Arrived(id) /\ RouteOf(id) \in TypedRoutes /\ LacksInput(request[id]))
            => /\ pc[id] = "done"
               /\ Len(responses[id]) = 1
               /\ responses[id][1].status = 400
               /\ calls[id] = <<>>

C1_Witness ==
    \E i, j \in ReqIds :
        /\ RouteOf(i) = "chat-message" /\ RouteOf(j) = "disease-diagnosis"
        /\ LacksInput(request[i]) /\ LacksInput(request[j])
        /\ pc[i] = "done" /\ pc[j] = "done"
        /\ responses[i][1].status = 400 /\ responses[j][1].status = 400

\* C2: every request handled by the generic route, with method M and path
\* /proxy/<suffix>, makes its single outbound call to <base>/<suffix> with
\* method M, and a remote answer of status S with JSON body B is relayed as
\* exactly status S and body B.
C2_GenericForwards ==
    \A id \in ReqIds :
        (Arrived(id) /\ handler[id] = <<"generic">> /\ request[id].path[1] = "proxy")
            => /\ Len(calls[id]) = 1
               /\ calls[id][1].url = Url(config.N8N_BASE_URL, Tail(request[id].path))
               /\ calls[id][1].method = request[id].method
               /\ (remote[id].outcome = "json"
                     => responses[id] = <<Response(remote[id].status, remote[id].data)>>)

\* C3: on every proxy route a failed forward (connection failure, remote
\* timeout, non-JSON answer) gives a 500 response whose body carries the
\* underlying error message and a hint that the remote may be unreachable.
C3_FailureCarriesMessageAndHint ==
    \A id \in ReqIds :
        remote[id].outcome \in {"error", "notjson"}
            => /\ Len(responses[id]) = 1
               /\ responses[id][1].status = 500
               /\ Get(responses[id][1].body, "error") = remote[id].message
               /\ "hint" \in Fields(responses[id][1].body)

\* C4: a POST /proxy/capture-analyze whose file is larger than the 10 MB
\* cap is rejected without reaching the forwarding handler, and no
\* outbound call is issued for it.
C4_OversizeUploadNotForwarded ==
    \A id \in ReqIds :
        (Arrived(id) /\ RouteOf(id) = "capture-analyze"
                     /\ request[id].file.size > 10 * 1024 * 1024)
            => /\ handler[id] = <<>>
               /\ calls[id] = <<>>
               /\ Len(responses[id]) = 1
               /\ responses[id][1].status >= 400

C4_Witness ==
    \E id \in ReqIds :
        /\ pc[id] = "done"
        /\ RouteOf(id) = "capture-analyze"
        /\ request[id].file = BigFile
        /\ responses[id] # <<>>

\* C5: no retry: at most one outbound call is ever issued on behalf of an
\* inbound request, also when its forward fails.
C5_AtMostOneCall ==
    \A id \in ReqIds : Len(calls[id]) <= 1

C5_Witness ==
    \E id \in ReqIds :
        /\ pc[id] = "done"
        /\ remote[id].outcome \in {"error", "notjson"}
        /\ Len(calls[id]) = 1
        /\ responses[id][1].status = 500

\* C10: concurrent requests are independent: the response to a request is
\* determined by its own input and by the remote's answer to its own
\* outbound call, whatever the other requests do, and the startup
\* configuration is never modified.
C10_Independent ==
    /\ config = StartupConfig
    /\ \A id \in ReqIds :
          pc[id] = "done" =>
             /\ Len(responses[id]) = 1
             /\ remote[id].outcome = "json"
                   => responses[id][1] = Response(remote[id].status, remote[id].data)
             /\ remote[id].outcome \in {"error", "notjson"}
                   => /\ responses[id][1].status = 500
                      /\ Get(responses[id][1].body, "error") = remote[id].message
    /\ \A i, j \in ReqIds :
          (request[i] = request[j] /\ remote[i] = remote[j]
              /\ pc[i] = "done" /\ pc[j] = "done")
             => responses[i] = responses[j]
    /\ \A i, j \in ReqIds :
          (request[i] = request[j] /\ calls[i] # <<>> /\ calls[j] # <<>>)
             => calls[i] = calls[j]

C10_Witness ==
    \E i, j \in ReqIds :
        /\ i # j
        /\ request[i] = request[j]
        /\ pc[i] = "done" /\ pc[j] = "done"
        /\ remote[i].outcome = "json" /\ remote[i].status = 200
        /\ remote[j].outcome = "json" /\ remote[j].status = 404
        /\ responses[i][1].status = 200
        /\ responses[j][1].status = 404

\* ------------------------------------------------------------------------
\* Properties of the client library
\* ------------------------------------------------------------------------
\* the requests handed to fetch() on behalf of call k
FetchesOf(k) == {n \in DOMAIN fetched : fetched[n].inv = k}

\* C6: sendChatMessage(message, sessionId) sends a JSON body with exactly
\* the fields message and session_id when a session id is given, and
\* exactly the field message when it is omitted (undefined, null or the
\* empty string): session_id is then absent, not present as null.
C6_ChatBodyFields ==
    \A n \in DOMAIN fetched :
        LET inv == invocations[fetched[n].inv]
            body == fetched[n].req.body
        IN inv.fn = "sendChatMessage" =>
             /\ fetched[n].req.method = "POST"
             /\ fetched[n].req.contentType = "application/json"
             /\ inv.args[2] \notin {Undefined, Null, ""}
                   => body = {<<"message", inv.args[1]>>, <<"session_id", inv.args[2]>>}
             /\ inv.args[2] \in {Undefined, Null, ""}
                   => /\ body = {<<"message", inv.args[1]>>}
                      /\ "session_id" \notin Fields(body)

C6_Witness ==
    \E m, n \in DOMAIN fetched :
        /\ invocations[fetched[m].inv].fn = "sendChatMessage"
        /\ invocations[fetched[n].inv].fn = "sendChatMessage"
        /\ invocations[fetched[m].inv].args[2] = Undefined
        /\ invocations[fetched[n].inv].args[2] = "s1"
        /\ Fields(fetched[m].req.body) = {"message"}
        /\ Fields(fetched[n].req.body) = {"message", "session_id"}

ReadOnlyFunctions ==
    {"getRealtimeData", "getHistoryData", "getDailySummary", "getCameraStatus",
     "getChatHistoryList", "getChatHistoryDetail", "getMarketPrice",
     "getPriceCompare", "getPriceHistory", "getDiaryList", "getHomeData"}

\* an argument, or its documented default when it is left out
ArgOr(a, d) == IF a = Undefined THEN d ELSE a

PercentEncoded(t) == IF t = "a b&c" THEN "a%20b%26c" ELSE t

\* the documented path and query string of each read-only function
Documented(fn, a) ==
    CASE fn = "getRealtimeData" -> <<<<"data-realtime">>, <<>>>>
      [] fn = "getHistoryData" ->
            <<<<"data-history">>, <<<<"hours", ArgOr(a[1], "1")>>>>>>
      [] fn = "getDailySummary" -> <<<<"data-summary">>, <<>>>>
      [] fn = "getCameraStatus" -> <<<<"camera-status">>, <<>>>>
      [] fn = "getChatHistoryList" ->
            <<<<"chat-message", "history">>,
              <<<<"page", ArgOr(a[1], "1")>>, <<"limit", ArgOr(a[2], "10")>>>>>>
      [] fn = "getChatHistoryDetail" ->
            <<<<"chat-message", "history", "detail">>,
              <<<<"threadId", PercentEncoded(a[1])>>>>>>
      [] fn = "getMarketPrice" -> <<<<"market-price">>, <<>>>>
      [] fn = "getPriceCompare" -> <<<<"price-compare">>, <<>>>>
      [] fn = "getPriceHistory" ->
            <<<<"price-history">>, <<<<"start", a[1]>>, <<"end", a[2]>>>>>>
      [] fn = "getDiaryList" ->
            <<<<"app", "diary">>, <<<<"days", ArgOr(a[1], "7")>>>>>>
      [] fn = "getHomeData" -> <<<<"app", "home">>, <<>>>>

\* C9: every read-only client function issues exactly one network request
\* per call, a GET whose path and query parameters are the documented
\* template filled with the call's arguments or their defaults.
C9_ReadOnlyOneRequest ==
    \A k \in DOMAIN invocations :
        invocations[k].fn \in ReadOnlyFunctions =>
            /\ Cardinality(FetchesOf(k)) = 1
            /\ \A n \in FetchesOf(k) :
                  /\ fetched[n].req.method = "GET"
                  /\ fetched[n].req.url.base = BASE_URL
                  /\ <<fetched[n].req.url.path, fetched[n].req.url.query>>
                        = Documented(invocations[k].fn, invocations[k].args)

C9_Witness ==
    \E j, k \in DOMAIN invocations :
        /\ invocations[j].fn = "getHistoryData" /\ invocations[j].args = <<"6">>
        /\ invocations[k].fn = "getHistoryData" /\ invocations[k].args = <<Undefined>>
        /\ invocations[j].state = "resolved" /\ invocations[k].state = "resolved"
        /\ \E n \in FetchesOf(j) : fetched[n].req.url.query = <<<<"hours", "6">>>>
        /\ \E n \in FetchesOf(k) : fetched[n].req.url.query = <<<<"hours", "1">>>>

\* ------------------------------------------------------------------------
\* Properties of fileToBase64
\* ------------------------------------------------------------------------
\* C7: fileToBase64(file) settles exactly once: when the read completes it
\* resolves with what follows the `data:...;base64,` prefix of the data
\* URL, when the read fails it rejects, and it never resolves after a
\* read failure, whatever part of the file had been read.
C7_SettlesOnce ==
    /\ reader.readyState # "DONE"
          => /\ promise.state \in {"none", "pending"}
             /\ promise.resolveCalls + promise.rejectCalls = 0
    /\ reader.readyState = "DONE"
          => /\ promise.resolveCalls + promise.rejectCalls = 1
             /\ reader.error
                   => promise.state = "rejected" /\ promise.resolveCalls = 0
             /\ ~reader.error
                   => /\ promise.state = "fulfilled"
                      /\ \E mediatype \in {"image/jpeg", "image/png", "application/octet-stream"} :
                            reader.result = <<"data:", mediatype, ";base64", ",">> \o promise.value
                      /\ promise.value = file.payload

C7_Witness ==
    /\ reader.readyState = "DONE"
    /\ ~reader.error
    /\ promise.state = "fulfilled"
    /\ Len(file.payload) = 3
    /\ promise.value = file.payload

\* ------------------------------------------------------------------------
\* Properties of the proxy server: chat body and single response
\* ------------------------------------------------------------------------
\* C11: the body POST /proxy/chat-message forwards is the chat request
\* { message, session_id? }: a session_id carried by the caller's request
\* is forwarded, unchanged, alongside the message.
C11_ChatForwardsSessionId ==
    \A id \in ReqIds :
        (handler[id] = <<"chat-message">> /\ calls[id] # <<>>)
            => calls[id][1].body
                  = {p \in request[id].body : p[1] \in {"message", "session_id"}}

ProxyHandlers == {"capture-analyze", "disease-diagnosis", "chat-message", "generic"}

\* the typed handler registered for a POST to this path, "" when there is none
TypedHandlerFor(r) ==
    IF r.method # "POST" THEN ""
    ELSE IF r.path \in {<<"proxy", "capture-analyze">>, <<"PROXY", "capture-analyze">>}
         THEN "capture-analyze"
    ELSE IF r.path \in {<<"proxy", "disease-diagnosis">>, <<"PROXY", "disease-diagnosis">>}
         THEN "disease-diagnosis"
    ELSE IF r.path \in {<<"proxy", "chat-message">>, <<"PROXY", "chat-message">>}
         THEN "chat-message"
    ELSE ""

\* C12: a request that reaches a proxy handler gets exactly one response,
\* never two: a 400 for missing input, the relayed remote status and body,
\* or a 500 when the forward fails; it has its response as soon as the
\* outbound call has completed or failed.  A POST to a typed path is served
\* by its typed handler only, never also by the generic route.
C12_ExactlyOneResponse ==
    \A id \in ReqIds :
        handler[id] # <<>> /\ handler[id][1] \in ProxyHandlers =>
            /\ Len(handler[id]) = 1
            /\ Len(responses[id]) <= 1
            /\ (Len(responses[id]) = 1) <=> (pc[id] = "done")
            /\ remote[id].outcome \in {"json", "error", "notjson"}
                  => Len(responses[id]) = 1
            /\ pc[id] = "done" =>
                  \/ /\ responses[id][1].status = 400
                     /\ calls[id] = <<>>
                  \/ /\ remote[id].outcome = "json"
                     /\ responses[id][1] = Response(remote[id].status, remote[id].data)
                  \/ /\ responses[id][1].status = 500
                     /\ remote[id].outcome \in {"error", "notjson", "none"}
                     /\ remote[id].outcome = "none" => calls[id] = <<>>
            /\ TypedHandlerFor(request[id]) # ""
                  => handler[id] = <<TypedHandlerFor(request[id])>>

C12_Witness ==
    \E i, j \in ReqIds :
        /\ handler[i] = <<"chat-message">>
        /\ pc[i] = "done"
        /\ remote[i].outcome = "json"
        /\ Len(responses[i]) = 1
        /\ handler[j] = <<"generic">>
        /\ pc[j] = "done"
        /\ remote[j].outcome = "notjson"
        /\ responses[j][1].status = 500

====
